---- MODULE Spec2Model ----
(***************************************************************************)
(* JotformExtendedClient (src/jotformextended.py): construction of the     *)
(* client, the request dispatcher _make_request, and the endpoint methods  *)
(* that call it.  The remote service and the HTTP transport are the        *)
(* environment: every call draws the reply (or the transport failure)      *)
(* nondeterministically.                                                   *)
(***************************************************************************)
EXTENDS Integers, Sequences, FiniteSets, TLC

VARIABLES
    pc,            \* "start" | "ready" (client object exists) | "failed" (__init__ raised)
    subdomainArg,  \* the subdomain argument the caller wrote, "<omitted>" if none
    self,          \* the instance attributes __api_key, __is_debug, __base_url, __internal_base_url
    call,          \* arguments of the latest _make_request call
    request,       \* the latest HTTP request handed to the transport
    response,      \* what the transport gave back for it
    returned,      \* value returned by the latest call
    raised,        \* exception that ended the latest operation, "none" if it returned
    stdout,        \* lines printed by the latest call
    sent,          \* number of HTTP requests issued so far
    twin,          \* the latest call replayed on a client that differs only in debug
    th             \* per thread: position inside _make_request and its local variables

vars == <<pc, subdomainArg, self, call, request, response, returned, raised, stdout, sent, twin, th>>

(***************************************************************************)
(* Bounds and input sets.                                                  *)
(***************************************************************************)
MaxCalls == 2
NumThreads == 2

Omitted == "<omitted>"
Unset == "<unset>"

ApiKeys == {"0123abcd", "feedc0de"}
SubdomainArgs == {Omitted, "api", "eu", "hipaa", "default", "xx"}
Ids == {"123"}
Methods == {"GET", "POST", "PUT", "DELETE"}

(***************************************************************************)
(* Python values that appear as parameter values: str, int and None.  A   *)
(* dict is the set of its <<key, value>> items.                            *)
(***************************************************************************)
PyStr(s) == [t |-> "str", v |-> s]
PyInt(s) == [t |-> "int", v |-> s]
PyNone == [t |-> "NoneType", v |-> "None"]

(***************************************************************************)
(* Class attributes.                                                       *)
(***************************************************************************)
\* Variant: the EU entry holds the internal subdomain.
SUBDOMAINS_euInternal == [k \in {"api", "eu", "hipaa"} |->
                 CASE k = "api" -> "api" [] k = "eu" -> "eu" [] k = "hipaa" -> "hipaa-api"]

SUBDOMAINS == [k \in {"api", "eu", "hipaa"} |->
                 CASE k = "api" -> "api" [] k = "eu" -> "eu-api" [] k = "hipaa" -> "hipaa-api"]
INTERNAL_SUBDOMAINS == [k \in {"api", "eu", "hipaa"} |->
                 CASE k = "api" -> "www" [] k = "eu" -> "eu" [] k = "hipaa" -> "hipaa"]

\* Variant: d.get(k, d["api"]) -- an unknown key falls back to the default datacenter.
GetItem_fallback(d, k) == IF k \in DOMAIN d THEN [ok |-> TRUE, v |-> d[k]]
                                            ELSE [ok |-> TRUE, v |-> d["api"]]

\* Python's d[k]: the value, or KeyError when k is not a key of d.
GetItem(d, k) == IF k \in DOMAIN d THEN [ok |-> TRUE, v |-> d[k]]
                                   ELSE [ok |-> FALSE, v |-> "KeyError"]

NoSelf == [api_key |-> Unset, is_debug |-> FALSE, base_url |-> Unset, internal_base_url |-> Unset]
NoCall == [api_path |-> "", method |-> "", params |-> {}, has_params |-> FALSE, internal |-> FALSE]
NoRequest == [method |-> "", url |-> "", headers |-> {}, params |-> {}, data |-> {}]
NoResponse == [kind |-> "none", status |-> 0, text |-> ""]
NoValue == [type |-> "<nothing>", repr |-> ""]
NoTwin == [request |-> NoRequest, stdout |-> <<>>, raised |-> "none", returned |-> NoValue]

Threads == 1..NumThreads

\* A thread that is not inside a call.
IdleThread == [pc |-> "idle", args |-> NoCall, headers |-> {}, url |-> "",
               request |-> NoRequest, reply |-> NoResponse, printed |-> <<>>,
               returned |-> NoValue, raised |-> "none"]

Init ==
    /\ pc = "start"
    /\ subdomainArg = Omitted
    /\ self = NoSelf
    /\ call = NoCall
    /\ request = NoRequest
    /\ response = NoResponse
    /\ returned = NoValue
    /\ raised = "none"
    /\ stdout = <<>>
    /\ sent = 0
    /\ twin = NoTwin
    /\ th = [t \in Threads |-> IdleThread]

(***************************************************************************)
(* JotformExtendedClient.__init__(api_key, subdomain="api", debug=False)   *)
(***************************************************************************)
\* Variant: the default of the subdomain argument is the EU datacenter.
DefaultSubdomain_eu == "eu"

\* The default value of the subdomain argument.
DefaultSubdomain == "api"

InitResult(api_key, subdomain, debug) ==
    LET pub == GetItem(SUBDOMAINS, subdomain)
        int == GetItem(INTERNAL_SUBDOMAINS, subdomain)
        s1  == [NoSelf EXCEPT !.api_key = api_key, !.is_debug = debug]
    IN  IF ~pub.ok THEN [raised |-> pub.v, self |-> s1]
        ELSE LET s2 == [s1 EXCEPT !.base_url = "https://" \o pub.v \o ".jotform.com"]
             IN IF ~int.ok THEN [raised |-> int.v, self |-> s2]
                ELSE [raised |-> "none",
                      self |-> [s2 EXCEPT !.internal_base_url =
                                   ("https://" \o int.v) \o ".jotform.com/API"]]

Construct ==
    /\ pc = "start"
    /\ \E api_key \in ApiKeys, arg \in SubdomainArgs, debug \in BOOLEAN :
         LET subdomain == IF arg = Omitted THEN DefaultSubdomain ELSE arg
             r == InitResult(api_key, subdomain, debug)
         IN /\ subdomainArg' = arg
            /\ self' = r.self
            /\ raised' = r.raised
            /\ pc' = IF r.raised = "none" THEN "ready" ELSE "failed"
    /\ UNCHANGED <<call, request, response, returned, stdout, sent, twin, th>>

(***************************************************************************)
(* The environment: the transport either fails or delivers a response.     *)
(***************************************************************************)
BodyOk == "{\"responseCode\":200,\"content\":{\"id\":\"123\"}}"
BodyUnauthorized == "{\"responseCode\":401,\"message\":\"Unauthorized\"}"
BodyHtml == "<html>502 Bad Gateway</html>"

Bodies == {BodyOk, BodyUnauthorized, BodyHtml}
Statuses == {200, 401}
TransportErrors == {"ConnectionError"}

Replies == [kind : {"response"}, status : Statuses, text : Bodies]
             \cup [kind : {"error"}, status : {0}, text : TransportErrors]

(***************************************************************************)
(* json.loads(text): the decoded Python value, or JSONDecodeError.         *)
(***************************************************************************)
JsonLoads(text) ==
    CASE text = BodyOk ->
           [ok |-> TRUE, value |-> [type |-> "dict",
                 repr |-> "{'responseCode': 200, 'content': {'id': '123'}}"]]
      [] text = BodyUnauthorized ->
           [ok |-> TRUE, value |-> [type |-> "dict",
                 repr |-> "{'responseCode': 401, 'message': 'Unauthorized'}"]]
      [] OTHER ->
           [ok |-> FALSE, value |-> NoValue]

\* Variant: the mapping travels in the body for every verb but GET.
RequestsRequest_byVerb(method, url, headers, params) ==
    LET pairs == {<<item[1], item[2].v>> : item \in {i \in params : i[2] # PyNone}}
    IN [method  |-> method,
        url     |-> url,
        headers |-> headers,
        params  |-> IF method = "GET" THEN pairs ELSE {},
        data    |-> IF method = "GET" THEN {} ELSE pairs]

\* Variant: every falsy value is left out, not only None.
RequestsRequest_dropEmpty(method, url, headers, params) ==
    [method  |-> method,
     url     |-> url,
     headers |-> headers,
     params  |-> {<<item[1], item[2].v>> :
                     item \in {i \in params : i[2] # PyNone /\ i[2].v # ""}},
     data    |-> {}]

(***************************************************************************)
(* requests.request(method, url, headers, params): the request that goes   *)
(* on the wire.  `params` is encoded into the URL query string for every   *)
(* method; items whose value is None are left out, the other values are    *)
(* sent in their string form.  Nothing is passed as `data`.                *)
(***************************************************************************)
RequestsRequest(method, url, headers, params) ==
    [method  |-> method,
     url     |-> url,
     headers |-> headers,
     params  |-> {<<item[1], item[2].v>> : item \in {i \in params : i[2] # PyNone}},
     data    |-> {}]

(***************************************************************************)
(* JotformExtendedClient._make_request                                     *)
(***************************************************************************)
\* `if params:` -- None and the empty dict are both false.
Truthy(params, has_params) == has_params /\ params # {}

\* Variant: the key is also appended to the URL as a query parameter.
Url_keyInQuery(s, api_path, internal) ==
    IF internal THEN (s.internal_base_url \o api_path) \o ("?apiKey=" \o s.api_key)
                ELSE (s.base_url \o api_path) \o ("?apiKey=" \o s.api_key)

Url(s, api_path, internal) ==
    IF internal THEN s.internal_base_url \o api_path
                ELSE s.base_url \o api_path

\* Variant: the referer header is attached to every request.
Headers_alwaysReferer(s, internal) ==
    {<<"apiKey", s.api_key>>} \cup {<<"referer", s.internal_base_url>>}

Headers(s, internal) ==
    IF internal THEN {<<"apiKey", s.api_key>>} \cup {<<"referer", s.internal_base_url>>}
                ELSE {<<"apiKey", s.api_key>>}

BuildRequest(s, api_path, method, params, has_params, internal) ==
    IF Truthy(params, has_params)
    THEN RequestsRequest(method, Url(s, api_path, internal), Headers(s, internal), params)
    ELSE RequestsRequest(method, Url(s, api_path, internal), Headers(s, internal), {})

DebugOutput(s, url, method) ==
    IF s.is_debug THEN <<"Request URL: " \o url, "Method: " \o method>> ELSE <<>>

\* Variant: a body that does not decode is swallowed and the call returns None.
MakeRequest_swallow(s, api_path, method, params, has_params, internal, reply) ==
    LET req == BuildRequest(s, api_path, method, params, has_params, internal)
        dec == JsonLoads(reply.text)
    IN  IF reply.kind = "error"
        THEN [request |-> req, stdout |-> <<>>, raised |-> reply.text, returned |-> NoValue]
        ELSE [request  |-> req,
              stdout   |-> DebugOutput(s, req.url, method),
              raised   |-> "none",
              returned |-> IF dec.ok THEN dec.value
                           ELSE [type |-> "NoneType", repr |-> "None"]]

\* Variant: only GET decodes the response, the other verbs return None.
MakeRequest_getOnly(s, api_path, method, params, has_params, internal, reply) ==
    LET req == BuildRequest(s, api_path, method, params, has_params, internal)
        dec == JsonLoads(reply.text)
    IN  IF reply.kind = "error"
        THEN [request |-> req, stdout |-> <<>>, raised |-> reply.text, returned |-> NoValue]
        ELSE IF method # "GET"
        THEN [request |-> req, stdout |-> DebugOutput(s, req.url, method),
              raised |-> "none", returned |-> [type |-> "NoneType", repr |-> "None"]]
        ELSE [request  |-> req,
              stdout   |-> DebugOutput(s, req.url, method),
              raised   |-> IF dec.ok THEN "none" ELSE "JSONDecodeError",
              returned |-> dec.value]

\* Variant: in debug mode the call prints and returns without decoding the body.
MakeRequest_debugReturns(s, api_path, method, params, has_params, internal, reply) ==
    LET req == BuildRequest(s, api_path, method, params, has_params, internal)
        dec == JsonLoads(reply.text)
    IN  IF reply.kind = "error"
        THEN [request |-> req, stdout |-> <<>>, raised |-> reply.text, returned |-> NoValue]
        ELSE IF s.is_debug
        THEN [request |-> req, stdout |-> DebugOutput(s, req.url, method),
              raised |-> "none", returned |-> [type |-> "NoneType", repr |-> "None"]]
        ELSE [request  |-> req,
              stdout   |-> <<>>,
              raised   |-> IF dec.ok THEN "none" ELSE "JSONDecodeError",
              returned |-> dec.value]

\* The whole call: the request issued, what is printed, and how the call ends.
MakeRequest(s, api_path, method, params, has_params, internal, reply) ==
    LET req == BuildRequest(s, api_path, method, params, has_params, internal)
        dec == JsonLoads(reply.text)
    IN  IF reply.kind = "error"
        THEN [request |-> req, stdout |-> <<>>, raised |-> reply.text, returned |-> NoValue]
        ELSE [request  |-> req,
              stdout   |-> DebugOutput(s, req.url, method),
              raised   |-> IF dec.ok THEN "none" ELSE "JSONDecodeError",
              returned |-> dec.value]

\* One call of _make_request on the client, with the reply the environment gives.
Dispatch(api_path, method, params, has_params, internal) ==
    /\ pc = "ready"
    /\ sent < MaxCalls
    /\ \E reply \in Replies :
         LET r == MakeRequest(self, api_path, method, params, has_params, internal, reply)
             t == MakeRequest([self EXCEPT !.is_debug = ~self.is_debug],
                              api_path, method, params, has_params, internal, reply)
         IN /\ call' = [api_path |-> api_path, method |-> method, params |-> params,
                        has_params |-> has_params, internal |-> internal]
            /\ request' = r.request
            /\ response' = reply
            /\ returned' = r.returned
            /\ raised' = r.raised
            /\ stdout' = r.stdout
            /\ twin' = t
            /\ sent' = sent + 1
    /\ UNCHANGED <<pc, subdomainArg, self, th>>

(***************************************************************************)
(* Endpoint methods.  Each one formats a path, builds its parameter dict   *)
(* from the caller's arguments and delegates to _make_request.             *)
(***************************************************************************)
OptionalStr(values) == {PyNone} \cup {PyStr(x) : x \in values}

\* Paths of get_user, get_user_subusers and get_sender_emails: no argument, a plain GET.
StaticGetPaths ==
    {"/user", "/user/subusers", "/smtpConfig/user/all"}

get_static ==
    \E path \in StaticGetPaths : Dispatch(path, "GET", {}, FALSE, FALSE)

login ==
    \E app_name \in {"", "myapp"} :
        LET payload == {<<"username", PyStr("alice")>>, <<"password", PyStr("s3cret")>>,
                        <<"appName", PyStr(app_name)>>, <<"access", PyStr("full")>>}
        IN Dispatch("/user/login", "POST", payload, TRUE, FALSE)

update_user_settings ==
    \E settings \in {{}, {<<"email", PyStr("a@b.c")>>, <<"website", PyStr("b.c")>>}} :
        Dispatch("/user/settings", "POST", settings, TRUE, FALSE)

get_form ==
    \E form_id \in Ids : Dispatch("/form/" \o form_id, "GET", {}, FALSE, FALSE)

trash_form ==
    \E form_id \in Ids : Dispatch("/form/" \o form_id, "DELETE", {}, FALSE, FALSE)

create_report ==
    \E form_id \in Ids, fields \in OptionalStr({"ip,dt,1"}) :
        LET report_data == {<<"title", PyStr("Monthly")>>, <<"list_type", PyStr("csv")>>,
                            <<"fields", fields>>}
        IN Dispatch(("/form/" \o form_id) \o "/reports", "POST", report_data, TRUE, FALSE)

create_folder ==
    \E parent_folder_id \in OptionalStr({"f1"}), folder_color \in OptionalStr({"#FFEEDD"}) :
        LET payload == {<<"name", PyStr("Invoices")>>, <<"parent", parent_folder_id>>,
                        <<"color", folder_color>>}
        IN Dispatch("/folder", "POST", payload, TRUE, FALSE)

archive_form ==
    \E form_id \in Ids :
        Dispatch(("/form/" \o form_id) \o "/archive?archive=1", "POST", {}, FALSE, FALSE)

generate_pdf ==
    \E form_id \in Ids, pdf_id \in OptionalStr({"9"}) :
        LET pdf_data == {<<"formid", PyStr(form_id)>>, <<"submissionid", PyStr("777")>>,
                         <<"reportid", pdf_id>>, <<"download", PyInt("0")>>}
        IN Dispatch("/generatePDF", "GET", pdf_data, TRUE, FALSE)

\* _make_request called directly, with any verb, either base and any mapping.
DirectParams == {{}, {<<"limit", PyInt("20")>>, <<"orderby", PyStr("id")>>, <<"filter", PyNone>>}}

make_request ==
    \E method \in Methods, params \in DirectParams, internal \in BOOLEAN :
        Dispatch("/user/forms", method, params, params # {}, internal)

Next ==
    \/ Construct
    \/ get_static
    \/ login
    \/ update_user_settings
    \/ get_form
    \/ trash_form
    \/ create_report
    \/ create_folder
    \/ archive_form
    \/ generate_pdf
    \/ make_request

Spec == Init /\ [][Next]_vars

(***************************************************************************)
(* Several threads calling one client.  _make_request is split at the      *)
(* points where another thread can run: after the headers and the URL are  *)
(* built (lines 49-54), after the request is handed to the transport       *)
(* (55-60), after the reply arrives, and after printing and decoding       *)
(* (62-66).  headers, url and response are locals of the call.             *)
(***************************************************************************)
\* Variant: an internal call redirects the client to the internal host.
AttributesAfterBuild_redirect(s, internal) ==
    IF internal THEN [s EXCEPT !.base_url = s.internal_base_url] ELSE s

\* The instance attributes after lines 49-54: they are read, none is assigned.
AttributesAfterBuild(s, internal) == s

\* The calls the threads make: get_user, login, and an internal PUT with a mapping.
ThreadCalls ==
    {[api_path |-> "/user", method |-> "GET", params |-> {}, has_params |-> FALSE,
      internal |-> FALSE],
     [api_path |-> "/user/login", method |-> "POST",
      params |-> {<<"username", PyStr("alice")>>, <<"password", PyStr("s3cret")>>,
                  <<"appName", PyStr("")>>, <<"access", PyStr("full")>>},
      has_params |-> TRUE, internal |-> FALSE],
     [api_path |-> "/user/forms", method |-> "PUT",
      params |-> {<<"limit", PyInt("20")>>, <<"filter", PyNone>>},
      has_params |-> TRUE, internal |-> TRUE]}

ThreadReplies == {r \in Replies : r.status \in {0, 200} /\ r.text # BodyUnauthorized}

\* Lines 49-54: a thread enters _make_request and builds headers and url.
t_build ==
    /\ pc = "ready"
    /\ \E t \in Threads, args \in ThreadCalls :
         /\ th[t].pc = "idle"
         /\ th' = [th EXCEPT ![t] = [IdleThread EXCEPT
                       !.pc = "built",
                       !.args = args,
                       !.headers = Headers(self, args.internal),
                       !.url = Url(self, args.api_path, args.internal)]]
         /\ self' = AttributesAfterBuild(self, args.internal)
    /\ UNCHANGED <<pc, subdomainArg, call, request, response, returned, raised, stdout,
                   sent, twin>>

\* Lines 55-60: the request is handed to the transport.
t_send ==
    /\ \E t \in Threads :
         /\ th[t].pc = "built"
         /\ th' = [th EXCEPT ![t].pc = "waiting",
                             ![t].request =
                                 IF Truthy(th[t].args.params, th[t].args.has_params)
                                 THEN RequestsRequest(th[t].args.method, th[t].url,
                                                      th[t].headers, th[t].args.params)
                                 ELSE RequestsRequest(th[t].args.method, th[t].url,
                                                      th[t].headers, {})]
    /\ UNCHANGED <<pc, subdomainArg, self, call, request, response, returned, raised,
                   stdout, sent, twin>>

\* requests.request returns the response or raises the transport's exception.
t_receive ==
    /\ \E t \in Threads, reply \in ThreadReplies :
         /\ th[t].pc = "waiting"
         /\ th' = IF reply.kind = "error"
                  THEN [th EXCEPT ![t].pc = "done", ![t].reply = reply,
                                  ![t].raised = reply.text]
                  ELSE [th EXCEPT ![t].pc = "replied", ![t].reply = reply]
    /\ UNCHANGED <<pc, subdomainArg, self, call, request, response, returned, raised,
                   stdout, sent, twin>>

\* Lines 62-66: the debug prints, then json.loads returns or raises.
t_decode ==
    /\ \E t \in Threads :
         /\ th[t].pc = "replied"
         /\ LET dec == JsonLoads(th[t].reply.text)
            IN th' = [th EXCEPT ![t].pc = "done",
                                ![t].printed = DebugOutput(self, th[t].url, th[t].args.method),
                                ![t].raised = IF dec.ok THEN "none" ELSE "JSONDecodeError",
                                ![t].returned = dec.value]
    /\ UNCHANGED <<pc, subdomainArg, self, call, request, response, returned, raised,
                   stdout, sent, twin>>

\* The call is over and its locals are gone; the thread may call again.
t_return ==
    /\ \E t \in Threads :
         /\ th[t].pc = "done"
         /\ th' = [th EXCEPT ![t] = IdleThread]
    /\ UNCHANGED <<pc, subdomainArg, self, call, request, response, returned, raised,
                   stdout, sent, twin>>

NextThreads ==
    \/ Construct
    \/ t_build
    \/ t_send
    \/ t_receive
    \/ t_decode
    \/ t_return

SpecThreads == Init /\ [][NextThreads]_vars

(***************************************************************************)
(* Properties.                                                             *)
(***************************************************************************)
\* s contains k as a substring.
Contains(s, k) == \E i \in 1..(Len(s) - Len(k) + 1) : SubSeq(s, i, i + Len(k) - 1) = k

HeaderNames(req) == {h[1] : h \in req.headers}
Transmitted(req) == req.params \cup req.data

\* C1: a client built with an accepted selector has public base URL
\* https://{public}.jotform.com and internal base URL https://{internal}.jotform.com/API,
\* with (public, internal) = (api, www), (eu-api, eu), (hipaa-api, hipaa); the two
\* URLs are a function of the selector alone.
C1_BaseUrls ==
    pc = "ready" =>
        /\ subdomainArg = "api" =>
               /\ self.base_url = "https://api.jotform.com"
               /\ self.internal_base_url = "https://www.jotform.com/API"
        /\ subdomainArg = "eu" =>
               /\ self.base_url = "https://eu-api.jotform.com"
               /\ self.internal_base_url = "https://eu.jotform.com/API"
        /\ subdomainArg = "hipaa" =>
               /\ self.base_url = "https://hipaa-api.jotform.com"
               /\ self.internal_base_url = "https://hipaa.jotform.com/API"

C1_Witness == pc = "ready" /\ subdomainArg = "eu" /\ sent > 0

\* C2 as stated: construction succeeds for every selector in {default, eu, hipaa}
\* (and without a selector).
C2_Original ==
    (pc # "start" /\ subdomainArg \in {Omitted, "default", "eu", "hipaa"}) => pc = "ready"

\* C2 as amended: construction succeeds for every selector in {api, eu, hipaa}, and a
\* client constructed without a selector equals the one constructed with "api".
C2_Selectors ==
    (pc # "start" /\ subdomainArg \in {Omitted, "api", "eu", "hipaa"}) =>
        /\ pc = "ready"
        /\ raised \notin {"KeyError"}
        /\ subdomainArg = Omitted =>
               self = InitResult(self.api_key, "api", self.is_debug).self

C2_Witness == pc = "ready" /\ subdomainArg = Omitted /\ self.base_url = "https://api.jotform.com"

\* C3: construction with a selector outside the enumeration fails with an error, leaves
\* no client to call, and no HTTP request has been issued.
C3_UnknownSelector ==
    (pc # "start" /\ subdomainArg \notin {Omitted, "api", "eu", "hipaa"}) =>
        /\ pc = "failed"
        /\ raised = "KeyError"
        /\ sent = 0
        /\ request = NoRequest

C3_Witness == pc = "failed" /\ subdomainArg = "xx" /\ raised = "KeyError"

\* C4: every request carries the header apiKey equal to the configured key, exactly
\* once, and the key occurs neither in the URL nor in the query or body parameters.
C4_ApiKeyHeader ==
    sent > 0 =>
        /\ {h \in request.headers : h[1] = "apiKey"} = {<<"apiKey", self.api_key>>}
        /\ ~Contains(request.url, self.api_key)
        /\ \A p \in Transmitted(request) :
               ~Contains(p[1], self.api_key) /\ ~Contains(p[2], self.api_key)

C4_Witness ==
    sent > 0 /\ call.method = "PUT" /\ call.internal /\ request.params # {}
        /\ <<"apiKey", "feedc0de">> \in request.headers

\* C5: an internal request goes to internal base URL + path with referer equal to the
\* internal base URL; a non-internal request goes to public base URL + path and has no
\* referer header.
C5_InternalReferer ==
    sent > 0 =>
        IF call.internal
        THEN /\ request.url = self.internal_base_url \o call.api_path
             /\ {h \in request.headers : h[1] = "referer"}
                    = {<<"referer", self.internal_base_url>>}
        ELSE /\ request.url = self.base_url \o call.api_path
             /\ "referer" \notin HeaderNames(request)

C5_Witness ==
    sent > 0 /\ call.internal /\ request.url = "https://eu.jotform.com/API/user/forms"
        /\ <<"referer", "https://eu.jotform.com/API">> \in request.headers

\* C6 as stated: a non-empty mapping travels as URL query parameters for GET and as
\* body fields for POST, PUT and DELETE.
C6_Original ==
    (sent > 0 /\ Transmitted(request) # {}) =>
        IF call.method = "GET"
        THEN request.data = {}
        ELSE request.params = {} /\ request.data # {}

\* C6 as amended: for every verb a non-empty mapping travels as URL query parameters,
\* and the request has no body fields.
C6_AlwaysQuery ==
    sent > 0 =>
        /\ request.data = {}
        /\ (\E item \in call.params : item[2] # PyNone) => request.params # {}

C6_Witness == sent > 0 /\ call.method = "POST" /\ <<"username", "alice">> \in request.params

\* C7 as stated: the pairs transmitted are exactly the items of the mapping, optional
\* arguments left at None included.
C7_Original ==
    sent > 0 => {p[1] : p \in Transmitted(request)} = {item[1] : item \in call.params}

\* C7 as amended: the pairs transmitted are exactly the items of the mapping whose value
\* is not None, each value in its string form; nothing is added, and an empty or absent
\* mapping transmits nothing.
C7_ExactParams ==
    sent > 0 =>
        /\ \A p \in Transmitted(request) :
               \E item \in call.params :
                   item[1] = p[1] /\ item[2].t # "NoneType" /\ item[2].v = p[2]
        /\ \A item \in call.params :
               item[2].t # "NoneType" => <<item[1], item[2].v>> \in Transmitted(request)

C7_Witness ==
    sent > 0 /\ call.api_path = "/folder" /\ <<"color", PyNone>> \in call.params
        /\ request.params = {<<"name", "Invoices">>, <<"parent", "f1">>}

\* C8: a body that is not JSON ends the call with a decode error and no value; a
\* transport failure ends it with a transport error and no value; the two outcomes
\* are different.
C8_DecodeVsTransport ==
    sent > 0 =>
        /\ (response.kind = "response" /\ response.text = BodyHtml) =>
               raised = "JSONDecodeError" /\ returned = NoValue
        /\ response.kind = "error" =>
               raised \in TransportErrors /\ returned = NoValue
        /\ raised = "JSONDecodeError" => response.kind = "response"
        /\ "JSONDecodeError" \notin TransportErrors

C8_Witness == sent > 0 /\ response.text = BodyHtml /\ raised = "JSONDecodeError"

\* C9: for every verb and every status, a JSON body is returned as its decoded value,
\* error payloads included.
C9_ReturnsDecoded ==
    (sent > 0 /\ response.kind = "response") =>
        /\ response.text = BodyOk =>
               /\ raised = "none"
               /\ returned = [type |-> "dict",
                              repr |-> "{'responseCode': 200, 'content': {'id': '123'}}"]
        /\ response.text = BodyUnauthorized =>
               /\ raised = "none"
               /\ returned = [type |-> "dict",
                              repr |-> "{'responseCode': 401, 'message': 'Unauthorized'}"]

C9_Witness ==
    sent > 0 /\ call.method = "DELETE" /\ response.status = 401
        /\ response.text = BodyUnauthorized /\ returned.type = "dict"

\* C10: the same call with the same reply on a client that differs only in the debug
\* flag issues the same request and ends with the same value or the same error.
C10_DebugTransparent ==
    sent > 0 =>
        /\ twin.request = request
        /\ twin.returned = returned
        /\ twin.raised = raised

C10_Witness ==
    sent > 0 /\ self.is_debug /\ Len(stdout) = 2 /\ twin.stdout = <<>>
        /\ returned.type = "dict"

\* The request of every thread that has issued one is the request its own arguments
\* give on the client's configuration.
ThreadRequestsOwn ==
    \A t \in Threads :
        th[t].pc \in {"waiting", "replied", "done"} =>
            th[t].request = BuildRequest(self, th[t].args.api_path, th[t].args.method,
                                         th[t].args.params, th[t].args.has_params,
                                         th[t].args.internal)

\* C11: once the client is constructed, no step of any call, successful or failed,
\* sequential or overlapping with calls of other threads, changes the API key, the two
\* base URLs or the debug flag, and the request of each call is the one its own
\* arguments give.
C11_ConfigurationFrame ==
    [][pc = "ready" => (self' = self /\ ThreadRequestsOwn')]_vars

C11_Witness ==
    /\ pc = "ready"
    /\ th[1].pc = "done" /\ th[1].raised = "JSONDecodeError" /\ th[1].args.internal
    /\ th[2].pc = "waiting" /\ ~th[2].args.internal
    /\ "referer" \notin HeaderNames(th[2].request)
    /\ self.base_url = "https://hipaa-api.jotform.com"
====
